---- MODULE Spec2Model ----
(***************************************************************************)
(* Model of praat_formants_python/_formants.py: the lazily written praat   *)
(* script (make_script), the praat subprocess (run_praat), the parse and   *)
(* memoisation of the formant table (file2formants, _fmt_cache,            *)
(* clear_formant_cache) and the two lookups over the table                 *)
(* (formants_at_time, formants_at_interval).                               *)
(*                                                                         *)
(* Representation.  A text is the sequence of its lines and a line the     *)
(* sequence of its tab-separated fields, each field a string.  Times are   *)
(* counted in hundredths of a second ("0.01" is 1), frequencies in Hz.     *)
(* A numpy array is an object [id, rows]: id is its identity (every        *)
(* np.array(...) call makes a new one), rows its contents.                 *)
(***************************************************************************)
EXTENDS Integers, Sequences, FiniteSets, TLC

VARIABLES
    script_loc,     \* module global _script_loc: None or the script's path
    script_writes,  \* how many times the script file has been opened and written
    fmt_cache,      \* module global _fmt_cache: key -> table object
    praat_calls,    \* how many praat subprocesses have been run so far
    last,           \* what the most recent call was, got and returned
    \* history of the calls, kept apart from the cache
    memo_ret,       \* key -> the table its latest successful memoized call
                    \* returned, since the latest clear_formant_cache
    cleared,        \* keys that had such a table when a clear_formant_cache ran
                    \* and have had no memoized call since
    failed          \* keys whose latest memoized call ended in an error of praat

vars == <<script_loc, script_writes, fmt_cache, praat_calls, last,
          memo_ret, cleared, failed>>

----------------------------------------------------------------------------
(* Bounds of the model *)

\* praat subprocesses run in one behaviour
MaxPraatCalls == 2
\* rows of a table in the specification of the lookups
MaxRows == 3
\* largest time asked of a lookup (hundredths of a second)
MaxTime == 4

----------------------------------------------------------------------------
(* Values *)

None == "None"

\* np.nan, the value _float gives a field that is no number
NaN == -1

\* the defaults of file2formants' keyword arguments (winlen in milliseconds)
DefaultMaxFormant == 5500
DefaultWinLen == 25
DefaultPreemph == 50
\* the other ceiling the docstring names (male speech)
MaleMaxFormant == 5000

\* key = (filename, maxformant, winlen, preemph): one file with the default
\* arguments and with the other ceiling
Keys ==
    { <<"a.wav", DefaultMaxFormant, DefaultWinLen, DefaultPreemph>>,
      <<"a.wav", MaleMaxFormant, DefaultWinLen, DefaultPreemph>> }

\* what float(s) is for the strings that are numbers; any other string
\* raises ValueError in float
FloatOf == [s \in {"0.01", "0.03", "500.000", "600.000", "1500.000", "2500.000", "3500.000"} |->
              CASE s = "0.01" -> 1
                [] s = "0.03" -> 3
                [] s = "500.000" -> 500
                [] s = "600.000" -> 600
                [] s = "1500.000" -> 1500
                [] s = "2500.000" -> 2500
                [] s = "3500.000" -> 3500]

Undefined == "--undefined--"

\* the paths tempfile.mktemp hands out, a fresh one per call
TmpNames == <<"/tmp/tmpA.praat", "/tmp/tmpB.praat", "/tmp/tmpC.praat", "/tmp/tmpD.praat">>

NoObj == [id |-> 0, rows |-> <<>>]

EmptyCache == [k \in {} |-> NoObj]

----------------------------------------------------------------------------
(* praat's output *)

Header == <<"time(s)", "F1(Hz)", "F2(Hz)", "F3(Hz)", "F4(Hz)">>

\* one frame of the List... command: time, F1, F2, F3 and one more formant
Frame(t, f1) == <<t, f1, "1500.000", "2500.000", "3500.000">>

\* the text praat prints: header, frames, and the empty record after the
\* final newline
Stdout(frames) == <<Header>> \o frames \o << <<"">> >>

TimeStrs == {"0.01", "0.03"}
F1Strs == {"500.000", "600.000", Undefined}
Frames == {Frame(t, f) : t \in TimeStrs, f \in F1Strs}

\* praat lists the frames in the order of their times
FramesInOrder(fs) ==
    \A i \in 1..Len(fs), j \in 1..Len(fs) :
        i < j => FloatOf[fs[i][1]] <= FloatOf[fs[j][1]]

FrameSeqs(n) == UNION {{fs \in [1..m -> Frames] : FramesInOrder(fs)} : m \in 0..n}

\* every output of at most MaxRows frames
AllStdouts == {Stdout(fs) : fs \in FrameSeqs(MaxRows)}

\* the outputs praat gives in the specification of the whole module: no
\* frame, one frame, and frames of equal time with an undefined formant
Outputs ==
    { Stdout(<<>>),
      Stdout(<<Frame("0.03", "500.000")>>),
      Stdout(<<Frame("0.01", "600.000"), Frame("0.01", "500.000"), Frame("0.03", Undefined)>>) }

ErrText == "Error: cannot open file"

\* one run of the praat process: its exit code and what it wrote
PraatRuns ==
    {[rc |-> 0, stdout |-> o, stderr |-> ""] : o \in Outputs}
    \cup {[rc |-> 1, stdout |-> <<>>, stderr |-> ErrText]}

----------------------------------------------------------------------------
(* make_script *)

mktemp(n) == TmpNames[(n % Len(TmpNames)) + 1]

\* make_script with the test of _script_loc left out: a new file per call
make_script_every_call(loc, writes) ==
    [loc |-> mktemp(writes), writes |-> writes + 1]

\* the script is written when _script_loc is None; the path is returned
make_script(loc, writes) ==
    IF loc = None
    THEN [loc |-> mktemp(writes), writes |-> writes + 1]
    ELSE [loc |-> loc, writes |-> writes]

----------------------------------------------------------------------------
(* run_praat *)

\* communicate() returns stdout and stderr as strings, and a string has no
\* readlines: with a non-zero return code the argument of PraatError raises
\* AttributeError before PraatError is built
AttrErrText == "'str' object has no attribute 'readlines'"

\* run_praat without the test of p.returncode
run_praat_unchecked(run) == [err |-> None, msg |-> "", out |-> run.stdout]

run_praat(run) ==
    IF run.rc # 0
    THEN [err |-> "AttributeError", msg |-> AttrErrText, out |-> <<>>]
    ELSE [err |-> None, msg |-> "", out |-> run.stdout]

----------------------------------------------------------------------------
(* the parse of file2formants *)

_float(s) == IF s \in DOMAIN FloatOf THEN FloatOf[s] ELSE NaN

\* x.rstrip(): trailing white space goes, and with it the empty fields that
\* trailing tabs would make
RECURSIVE rstrip(_)
rstrip(x) ==
    IF Len(x) > 1 /\ x[Len(x)] = ""
    THEN rstrip(SubSeq(x, 1, Len(x) - 1))
    ELSE x

\* map(_float, x.rstrip().split('\t')[:4])
parse_record(x) ==
    LET f == rstrip(x)
        g == SubSeq(f, 1, IF Len(f) < 4 THEN Len(f) ELSE 4)
    IN  [i \in 1..Len(g) |-> _float(g[i])]

\* the records of res.split('\n')[1:-1], each parsed
parse_table(res) ==
    LET recs == SubSeq(res, 2, Len(res) - 1)
    IN  [i \in 1..Len(recs) |-> parse_record(recs[i])]

----------------------------------------------------------------------------
(* file2formants and the cache *)

\* the miss that forgets the assignment _fmt_cache[key] = ...
cache_insert_dropped(cache, key, obj) == cache

\* _fmt_cache[key] = obj
cache_insert(cache, key, obj) ==
    [k \in DOMAIN cache \cup {key} |-> IF k = key THEN obj ELSE cache[k]]

\* key in _fmt_cache
cache_has(cache, key) == key \in DOMAIN cache

\* the cache consulted and filled whatever memoize_call says
use_cache_always(memoize_call) == TRUE

\* if memoize_call:
use_cache(memoize_call) == memoize_call

\* the effect of one file2formants call in the current state: the error it
\* raises or the table it returns (tbl), and the globals after it
file2formants(key, memoize_call, run) ==
    IF use_cache(memoize_call) /\ cache_has(fmt_cache, key)
    THEN [err |-> None, msg |-> "", tbl |-> fmt_cache[key],
          cache |-> fmt_cache, loc |-> script_loc, writes |-> script_writes,
          invoked |-> 0, script |-> None]
    ELSE LET s == make_script(script_loc, script_writes)
             r == run_praat(run)
             obj == [id |-> praat_calls + 1, rows |-> parse_table(r.out)]
         IN  IF r.err # None
             THEN [err |-> r.err, msg |-> r.msg, tbl |-> NoObj,
                   cache |-> fmt_cache, loc |-> s.loc, writes |-> s.writes,
                   invoked |-> 1, script |-> s.loc]
             ELSE [err |-> None, msg |-> "", tbl |-> obj,
                   cache |-> IF use_cache(memoize_call)
                             THEN cache_insert(fmt_cache, key, obj)
                             ELSE fmt_cache,
                   loc |-> s.loc, writes |-> s.writes,
                   invoked |-> 1, script |-> s.loc]

\* a clear that leaves the cache as it is
clear_formant_cache_noop == fmt_cache

\* _fmt_cache = {}
clear_formant_cache == EmptyCache

----------------------------------------------------------------------------
(* bisect *)

\* bisect.bisect_left(a, x, lo, hi): a[mid] is the sequence's element mid + 1
RECURSIVE bisect_left(_, _, _, _)
bisect_left(a, x, lo, hi) ==
    IF lo < hi
    THEN LET mid == (lo + hi) \div 2
         IN  IF a[mid + 1] < x
             THEN bisect_left(a, x, mid + 1, hi)
             ELSE bisect_left(a, x, lo, mid)
    ELSE lo

\* bisect.bisect_right(a, x, lo, hi)
RECURSIVE bisect_right(_, _, _, _)
bisect_right(a, x, lo, hi) ==
    IF lo < hi
    THEN LET mid == (lo + hi) \div 2
         IN  IF x < a[mid + 1]
             THEN bisect_right(a, x, lo, mid)
             ELSE bisect_right(a, x, mid + 1, hi)
    ELSE lo

----------------------------------------------------------------------------
(* the lookups, given the table file2formants returned *)

\* formants_array[:, 0]; the array built from no record has one dimension
\* and the index raises IndexError (column0 is used on other arrays only)
column0(rows) == [i \in 1..Len(rows) |-> rows[i][1]]

\* np.any(np.isnan(row))
row_has_nan(row) == \E j \in 1..Len(row) : row[j] = NaN

OutOfRange ==
    [err |-> "ValueError", msg |-> "time out of range for filelength",
     res |-> <<>>, warned |-> FALSE]

\* the insertion point found with bisect_right, one row late on an equal time
index_at_time_right(rows, time) == bisect_right(column0(rows), time, 0, Len(rows))

\* bisect_left(formants_array[:, 0], time)
index_at_time(rows, time) == bisect_left(column0(rows), time, 0, Len(rows))

\* the index past the end taken for the last row instead of raising
formants_at_time_clamped(rows, time) ==
    IF rows = <<>>
    THEN OutOfRange
    ELSE LET i == index_at_time(rows, time)
             j == IF i >= Len(rows) THEN Len(rows) - 1 ELSE i
             res == Tail(rows[j + 1])
         IN  [err |-> None, msg |-> "", res |-> res, warned |-> row_has_nan(res)]

\* lines 125-131 of formants_at_time
formants_at_time(rows, time) ==
    IF rows = <<>>
    THEN OutOfRange
    ELSE LET i == index_at_time(rows, time)
         IN  IF i >= Len(rows)
             THEN OutOfRange
             ELSE LET res == Tail(rows[i + 1])
                  IN  [err |-> None, msg |-> "", res |-> res,
                       warned |-> row_has_nan(res)]

\* the end index found with bisect_left: the rows at time end are left out
end_index_left(rows, end) == bisect_left(column0(rows), end, 0, Len(rows))

\* bisect_right(formants_array[:, 0], end)
end_index(rows, end) == bisect_right(column0(rows), end, 0, Len(rows))

\* lines 146-154 of formants_at_interval; a slice raises no IndexError
formants_at_interval(rows, start, end) ==
    IF rows = <<>>
    THEN OutOfRange
    ELSE LET start_idx == bisect_left(column0(rows), start, 0, Len(rows))
             end_idx == end_index(rows, end)
             res == SubSeq(rows, start_idx + 1, end_idx)
         IN  [err |-> None, msg |-> "", res |-> res,
              warned |-> \E i \in 1..Len(res) : row_has_nan(res[i])]

----------------------------------------------------------------------------
(* The calls *)

NoKey == <<"", 0, 0, 0>>
NoRun == [rc |-> 0, stdout |-> <<>>, stderr |-> ""]

\* the record of a call that ran nothing and returned nothing
Quiet(op) ==
    [op |-> op, key |-> NoKey, memoize |-> FALSE, t1 |-> 0, t2 |-> 0,
     run |-> NoRun, invoked |-> 0, script |-> None,
     err |-> None, msg |-> "", out |-> <<>>, tbl |-> NoObj, res |-> <<>>,
     warned |-> FALSE,
     prev |-> NoObj, was_cleared |-> FALSE, was_failed |-> FALSE]

Init ==
    /\ script_loc = None
    /\ script_writes = 0
    /\ fmt_cache = EmptyCache
    /\ praat_calls = 0
    /\ last = Quiet("init")
    /\ memo_ret = EmptyCache
    /\ cleared = {}
    /\ failed = {}

\* make_script()
MakeScript ==
    LET s == make_script(script_loc, script_writes)
    IN  /\ script_loc' = s.loc
        /\ script_writes' = s.writes
        /\ last' = [Quiet("make_script") EXCEPT !.script = s.loc]
        /\ UNCHANGED <<fmt_cache, praat_calls, memo_ret, cleared, failed>>

\* run_praat(*args), whatever the arguments
RunPraat ==
    \E run \in PraatRuns :
        LET r == run_praat(run)
        IN  /\ praat_calls < MaxPraatCalls
            /\ praat_calls' = praat_calls + 1
            /\ last' = [Quiet("run_praat") EXCEPT
                          !.run = run, !.invoked = 1,
                          !.err = r.err, !.msg = r.msg, !.out = r.out]
            /\ UNCHANGED <<script_loc, script_writes, fmt_cache,
                           memo_ret, cleared, failed>>

Remember(memo, key, obj) ==
    [k \in DOMAIN memo \cup {key} |-> IF k = key THEN obj ELSE memo[k]]

\* the globals and the history after a file2formants call f, made alone or by
\* a lookup
Globals(key, memoize_call, f) ==
    /\ praat_calls + f.invoked <= MaxPraatCalls
    /\ script_loc' = f.loc
    /\ script_writes' = f.writes
    /\ fmt_cache' = f.cache
    /\ praat_calls' = praat_calls + f.invoked
    /\ memo_ret' = IF memoize_call /\ f.err = None
                   THEN Remember(memo_ret, key, f.tbl)
                   ELSE memo_ret
    /\ cleared' = IF memoize_call THEN cleared \ {key} ELSE cleared
    /\ failed' = IF ~memoize_call THEN failed
                 ELSE IF f.err # None THEN failed \cup {key}
                 ELSE failed \ {key}

Called(op, key, memoize_call, run, f) ==
    [Quiet(op) EXCEPT
        !.key = key, !.memoize = memoize_call,
        !.run = IF f.invoked = 1 THEN run ELSE NoRun,
        !.invoked = f.invoked, !.script = f.script,
        !.err = f.err, !.msg = f.msg, !.tbl = f.tbl,
        !.prev = IF key \in DOMAIN memo_ret THEN memo_ret[key] ELSE NoObj,
        !.was_cleared = key \in cleared,
        !.was_failed = key \in failed]

\* file2formants(filename, maxformant, winlen, preemph, memoize_call)
File2Formants ==
    \E key \in Keys, memoize_call \in BOOLEAN, run \in PraatRuns :
        LET f == file2formants(key, memoize_call, run)
        IN  /\ Globals(key, memoize_call, f)
            /\ last' = Called("file2formants", key, memoize_call, run, f)

\* clear_formant_cache()
ClearFormantCache ==
    /\ fmt_cache' = clear_formant_cache
    /\ last' = Quiet("clear_formant_cache")
    /\ memo_ret' = EmptyCache
    /\ cleared' = cleared \cup DOMAIN memo_ret
    /\ UNCHANGED <<script_loc, script_writes, praat_calls, failed>>

\* formants_at_time(filename, time, **kwargs)
FormantsAtTimeCall(key, memoize_call, run, time) ==
    LET f == file2formants(key, memoize_call, run)
        q == IF f.err # None
             THEN [err |-> f.err, msg |-> f.msg, res |-> <<>>, warned |-> FALSE]
             ELSE formants_at_time(f.tbl.rows, time)
    IN  /\ Globals(key, memoize_call, f)
        /\ last' = [Called("formants_at_time", key, memoize_call, run, f) EXCEPT
                      !.t1 = time, !.err = q.err, !.msg = q.msg,
                      !.res = q.res, !.warned = q.warned]

\* formants_at_interval(filename, start, end, **kwargs)
FormantsAtIntervalCall(key, memoize_call, run, start, end) ==
    LET f == file2formants(key, memoize_call, run)
        q == IF f.err # None
             THEN [err |-> f.err, msg |-> f.msg, res |-> <<>>, warned |-> FALSE]
             ELSE formants_at_interval(f.tbl.rows, start, end)
    IN  /\ Globals(key, memoize_call, f)
        /\ last' = [Called("formants_at_interval", key, memoize_call, run, f) EXCEPT
                      !.t1 = start, !.t2 = end, !.err = q.err, !.msg = q.msg,
                      !.res = q.res, !.warned = q.warned]

\* the times asked in the specification of the whole module: one that the
\* tables hold and one past their end
EdgeTimes == {1, MaxTime}

FormantsAtTime ==
    \E key \in Keys, memoize_call \in BOOLEAN, run \in PraatRuns, time \in EdgeTimes :
        FormantsAtTimeCall(key, memoize_call, run, time)

FormantsAtInterval ==
    \E key \in Keys, memoize_call \in BOOLEAN, run \in PraatRuns,
       start \in EdgeTimes, end \in EdgeTimes :
        FormantsAtIntervalCall(key, memoize_call, run, start, end)

Next ==
    \/ MakeScript
    \/ RunPraat
    \/ File2Formants
    \/ ClearFormantCache
    \/ FormantsAtTime
    \/ FormantsAtInterval

Spec == Init /\ [][Next]_vars

----------------------------------------------------------------------------
(* The lookups over every table of at most MaxRows rows: the module after  *)
(* one file2formants call with default arguments, then lookups of that     *)
(* file with default arguments.                                            *)

LookupKey == <<"a.wav", DefaultMaxFormant, DefaultWinLen, DefaultPreemph>>

InitLookup ==
    \E o \in AllStdouts :
        LET run == [rc |-> 0, stdout |-> o, stderr |-> ""]
            obj == [id |-> 1, rows |-> parse_table(run_praat(run).out)]
            s == make_script(None, 0)
        IN  /\ script_loc = s.loc
            /\ script_writes = s.writes
            /\ fmt_cache = cache_insert(EmptyCache, LookupKey, obj)
            /\ praat_calls = 1
            /\ memo_ret = Remember(EmptyCache, LookupKey, obj)
            /\ cleared = {}
            /\ failed = {}
            /\ last = [op |-> "file2formants", key |-> LookupKey, memoize |-> TRUE,
                       t1 |-> 0, t2 |-> 0, run |-> run, invoked |-> 1,
                       script |-> s.loc, err |-> None, msg |-> "", out |-> <<>>,
                       tbl |-> obj, res |-> <<>>, warned |-> FALSE,
                       prev |-> NoObj, was_cleared |-> FALSE,
                       was_failed |-> FALSE]

Times == 0..MaxTime

LookupAtTime ==
    \E time \in Times : FormantsAtTimeCall(LookupKey, TRUE, NoRun, time)

LookupAtInterval ==
    \E start \in Times, end \in Times :
        FormantsAtIntervalCall(LookupKey, TRUE, NoRun, start, end)

NextLookup == LookupAtTime \/ LookupAtInterval

SpecLookup == InitLookup /\ [][NextLookup]_vars

----------------------------------------------------------------------------
(* Properties *)

CacheOps == {"file2formants", "formants_at_time", "formants_at_interval"}

\* the latest call went through file2formants with memoize_call = True
MemoizedCall(l) == l.op \in CacheOps /\ l.memoize

\* the latest call went through file2formants and got a table from it
GotTable(l) == l.op \in CacheOps /\ l.tbl # NoObj

TimesInOrder(rows) ==
    \A i \in 1..Len(rows), j \in 1..Len(rows) : i < j => rows[i][1] <= rows[j][1]

\* C1: a memoized call (file2formants itself, or a lookup) whose key had a
\* successful memoized call before it, with no clear_formant_cache between
\* the two, returns the very table object that earlier call returned and runs
\* no praat process.
C1_MemoizedCallReusesTable ==
    (MemoizedCall(last) /\ last.prev # NoObj) =>
        /\ last.tbl = last.prev
        /\ last.invoked = 0
        /\ last.err \in {None, "ValueError"}

C1_Witness ==
    /\ last.op = "formants_at_time"
    /\ last.memoize
    /\ last.prev # NoObj
    /\ last.tbl = last.prev
    /\ last.invoked = 0
    /\ praat_calls = 2

\* C2: after clear_formant_cache the cache holds no entry, and the first
\* memoized call for a key whose entry a clear discarded runs praat again.
C2_ClearEmptiesCache ==
    /\ last.op = "clear_formant_cache" => DOMAIN fmt_cache = {}
    /\ (MemoizedCall(last) /\ last.was_cleared) => last.invoked = 1

C2_Witness ==
    /\ MemoizedCall(last)
    /\ last.was_cleared
    /\ last.invoked = 1
    /\ last.tbl.id = 2

\* C3: a call with memoize_call = False runs praat, also when the cache
\* holds an entry for its key, returns no table object of the cache, and
\* leaves the cache as it was.
C3_UnmemoizedCallBypassesCache ==
    [][(last'.op \in CacheOps /\ ~last'.memoize) =>
           /\ last'.invoked = 1
           /\ fmt_cache' = fmt_cache
           /\ \A k \in DOMAIN fmt_cache : last'.tbl # fmt_cache[k]]_vars

C3_Witness ==
    /\ last.op = "file2formants"
    /\ ~last.memoize
    /\ last.key \in DOMAIN fmt_cache
    /\ last.invoked = 1
    /\ last.tbl # NoObj
    /\ last.tbl # fmt_cache[last.key]

\* C4: a praat process that exits with a non-zero code makes the call fail
\* with PraatError whose message is the captured standard error; one that
\* exits with code 0 makes run_praat return the captured standard output.
C4_PraatErrorCarriesStderr ==
    /\ (last.invoked = 1 /\ last.run.rc # 0) =>
           (last.err = "PraatError" /\ last.msg = last.run.stderr)
    /\ (last.op = "run_praat" /\ last.run.rc = 0) =>
           (last.err = None /\ last.out = last.run.stdout)

\* C5: over a table with times in order and a time not past the last row's,
\* formants_at_time returns f1, f2, f3 of the first row whose time is at
\* least the time asked.
C5_AtTimeFirstRowNotBefore ==
    LET rows == last.tbl.rows
    IN  (/\ last.op = "formants_at_time"
         /\ GotTable(last)
         /\ TimesInOrder(rows)
         /\ Len(rows) > 0
         /\ last.t1 <= rows[Len(rows)][1]) =>
            /\ last.err = None
            /\ \E i \in 1..Len(rows) :
                  /\ rows[i][1] >= last.t1
                  /\ \A j \in 1..(i - 1) : rows[j][1] < last.t1
                  /\ last.res = <<rows[i][2], rows[i][3], rows[i][4]>>

\* two rows at the time asked, with different formants: the first is returned
C5_Witness ==
    LET rows == last.tbl.rows
    IN  /\ last.op = "formants_at_time"
        /\ last.err = None
        /\ Len(rows) = 3
        /\ rows[2][1] = last.t1
        /\ rows[3][1] = last.t1
        /\ rows[1][1] < last.t1
        /\ rows[2][2] # rows[3][2]
        /\ last.res = Tail(rows[2])

\* C6: formants_at_time raises ValueError, and returns no row, when the time
\* asked is past the last row's time or the table has no row.
C6_AtTimeOutOfRange ==
    LET rows == last.tbl.rows
    IN  (/\ last.op = "formants_at_time"
         /\ GotTable(last)
         /\ (Len(rows) = 0 \/ last.t1 > rows[Len(rows)][1])) =>
            /\ last.err = "ValueError"
            /\ last.msg = "time out of range for filelength"
            /\ last.res = <<>>

C6_Witness ==
    LET rows == last.tbl.rows
    IN  /\ last.op = "formants_at_time"
        /\ Len(rows) > 0
        /\ last.t1 > rows[Len(rows)][1]
        /\ last.err = "ValueError"

InInterval(row) == last.t1 <= row[1] /\ row[1] <= last.t2

\* C7 as stated: over every table with times in order and start <= end,
\* formants_at_interval returns the rows with start <= time <= end, in table
\* order, with their four columns.
C7_IntervalRowsOfAnyTable ==
    LET rows == last.tbl.rows
    IN  (/\ last.op = "formants_at_interval"
         /\ GotTable(last)
         /\ TimesInOrder(rows)
         /\ last.t1 <= last.t2) =>
            /\ last.err = None
            /\ last.res = SelectSeq(rows, InInterval)

\* C7 amended: the same over every table that has at least one row.
C7_IntervalRowsOfNonEmptyTable ==
    LET rows == last.tbl.rows
    IN  (/\ last.op = "formants_at_interval"
         /\ GotTable(last)
         /\ TimesInOrder(rows)
         /\ Len(rows) > 0
         /\ last.t1 <= last.t2) =>
            /\ last.err = None
            /\ last.res = SelectSeq(rows, InInterval)

\* the two rows at the time that is both start and end are returned, the
\* row before them is not
C7_Witness ==
    LET rows == last.tbl.rows
    IN  /\ last.op = "formants_at_interval"
        /\ last.err = None
        /\ Len(rows) = 3
        /\ rows[1][1] < last.t1
        /\ rows[2][1] = last.t1
        /\ rows[3][1] = last.t2
        /\ last.t1 = last.t2
        /\ last.res = <<rows[2], rows[3]>>

\* C8: formants_at_interval raises ValueError when start is past the last
\* row's time of a table with rows, and when the table has no row (stated
\* for start <= end, as the interval is meant to be given).
C8_IntervalOutOfRange ==
    LET rows == last.tbl.rows
    IN  (/\ last.op = "formants_at_interval"
         /\ GotTable(last)
         /\ last.t1 <= last.t2
         /\ (Len(rows) = 0 \/ last.t1 > rows[Len(rows)][1])) =>
            last.err = "ValueError"

\* C9: the script is written on the first make_script call and never again,
\* and every make_script call returns the path of that one file.
C9_ScriptWrittenOnce ==
    [][/\ (script_loc = None /\ last'.script # None) =>
              (script_writes' = 1 /\ script_loc' = last'.script)
       /\ script_loc # None =>
              /\ script_writes' = script_writes
              /\ script_loc' = script_loc
              /\ last'.script \in {None, script_loc}
       /\ last'.script = None => UNCHANGED <<script_loc, script_writes>>]_vars

\* two misses, each through make_script, and one write
C9_Witness ==
    /\ Cardinality(DOMAIN fmt_cache) = 2
    /\ last.script # None
    /\ last.script = script_loc
    /\ script_writes = 1

\* C10: when praat fails in a memoized call the call raises, the cache is
\* left as it was with no entry for the key, and the next memoized call for
\* that key runs praat again.
C10_FailureLeavesCache ==
    [][/\ (MemoizedCall(last') /\ last'.invoked = 1 /\ last'.run.rc # 0) =>
              /\ last'.err \notin {None, "ValueError"}
              /\ last'.tbl = NoObj
              /\ fmt_cache' = fmt_cache
              /\ last'.key \notin DOMAIN fmt_cache'
       /\ (MemoizedCall(last') /\ last'.was_failed) => last'.invoked = 1]_vars

C10_Witness ==
    /\ MemoizedCall(last)
    /\ last.was_failed
    /\ last.invoked = 1
    /\ last.run.rc = 0
    /\ last.key \in DOMAIN fmt_cache

====
